---- MODULE Spec2Model ----
(***************************************************************************)
(* Model of the JMdict Vietnamese enrichment pipeline (src/2_add_vi.py).   *)
(*                                                                         *)
(* Text is a sequence of Unicode code points, so that the range tests of   *)
(* the source (U+00C0 <= c <= U+1EF9, U+4E00 <= char <= U+9FFF),           *)
(* str.split, str.strip and str.join are computed as the source computes   *)
(* them.  Python's None is the one-element sequence <<-1>>, which is no    *)
(* text (no code point is negative).                                       *)
(*                                                                         *)
(* Four specifications share the module:                                   *)
(*   SpecMean  - Word.__init__ / StarDict.to_xml_sense_elements            *)
(*   SpecFind  - get_words / filter_word / find_relevant_word              *)
(*   SpecEntry - process_entry on one entry                                *)
(*   SpecRun   - update_jmdict_with_vietnamese_parallel (pool, collect)    *)
(***************************************************************************)
EXTENDS Integers, Sequences, FiniteSets

VARIABLES
    \* SpecMean: one row's fields and what Word / StarDict make of them
    mean, anki, word, sense_elements, mpc,
    \* SpecFind: the store, the forms of an entry and the loop of find_relevant_word
    conn, kanji_elements, reading_elements, fi, found, fpc,
    \* SpecEntry: process_entry's argument, locals and return value
    entry_str, entry, kanjis, xml_sense_elements, returned, epc,
    \* SpecRun: the store file, the corpus, the pool and the main process
    \* (served records which worker and connection ran a task, overtook
    \* whether a task finished before one that precedes it in the corpus)
    store, num_processes, entries, root, entry_strs, workers, dispatched, task_results,
    served, overtook, next_conn, closed, modified_entry_strs, rpc, ui, output

meanVars == <<mean, anki, word, sense_elements, mpc>>
findVars == <<conn, kanji_elements, reading_elements, fi, found, fpc>>
entryVars == <<entry_str, entry, kanjis, xml_sense_elements, returned, epc>>

runVars == <<store, num_processes, entries, root, entry_strs, workers, dispatched, task_results,
             served, overtook, next_conn, closed, modified_entry_strs, rpc, ui, output>>

vars == <<meanVars, findVars, entryVars, runVars>>

(***************************************************************************)
(* Text helpers                                                            *)
(***************************************************************************)
None == <<-1>>

\* ';' of mean.split(';') and of '; '.join
Semicolon == 59
\* ' ' of '; '.join, of " | ".join and of phonetic.split(" ")
Space == 32
\* '|' of " | ".join
Bar == 124
\* ':' of f"{k.kanji} : {k.anki}"
Colon == 58
\* U+00C0 and U+1EF9 of Word._process_mean
ViLo == 192
ViHi == 7929
\* U+4E00 and U+9FFF of get_kanji_from_word
KanjiLo == 19968
KanjiHi == 40959

\* Python truth value of an Optional[str]: None and "" are false.
Truthy(s) == s # None /\ s # <<>>

\* The characters str.strip() removes (str.isspace), those below U+3001.
IsSpace(c) ==
    c \in {9, 10, 11, 12, 13, 28, 29, 30, 31, 32, 133, 160, 5760, 8232, 8233, 8239, 8287, 12288}
    \/ (c >= 8192 /\ c <= 8202)

RECURSIVE LStrip(_)
LStrip(s) == IF s # <<>> /\ IsSpace(Head(s)) THEN LStrip(Tail(s)) ELSE s

RECURSIVE RStrip(_)
RStrip(s) ==
    IF s # <<>> /\ IsSpace(s[Len(s)]) THEN RStrip(SubSeq(s, 1, Len(s) - 1)) ELSE s

\* Faulty variant of Strip: strips the left side only.
StripLeftOnly(s) == LStrip(s)

\* str.strip()
Strip(s) == RStrip(LStrip(s))

\* str.split(sep) for a one-character separator: always at least one piece.
RECURSIVE Split(_, _)
Split(s, sep) ==
    IF \E i \in 1..Len(s) : s[i] = sep
    THEN LET i == CHOOSE i \in 1..Len(s) :
                      s[i] = sep /\ \A j \in 1..(i - 1) : s[j] # sep
         IN  <<SubSeq(s, 1, i - 1)>> \o Split(SubSeq(s, i + 1, Len(s)), sep)
    ELSE <<s>>

\* sep.join(parts)
RECURSIVE Join(_, _)
Join(parts, sep) ==
    IF parts = <<>> THEN <<>>
    ELSE IF Len(parts) = 1 THEN parts[1]
    ELSE parts[1] \o sep \o Join(Tail(parts), sep)

(***************************************************************************)
(* Word                                                                    *)
(***************************************************************************)
\* any(U+00C0 <= c <= U+1EF9 for c in m)
HasVietnamese(m) == \E i \in 1..Len(m) : ViLo <= m[i] /\ m[i] <= ViHi

\* Word._process_mean
ProcessMean(mn) ==
    LET clauses  == Split(mn, Semicolon)
        meanings == [i \in 1..Len(clauses) |-> Strip(clauses[i])]
        vietnamese_meanings == SelectSeq(meanings, HasVietnamese)
    IN  IF vietnamese_meanings # <<>>
        THEN Join(vietnamese_meanings, <<Semicolon, Space>>)
        ELSE mn

\* Word.__init__ (is_common, priority and info are stored and never read)
Word(w, ph, mn, an) ==
    [word     |-> IF Truthy(w) THEN Strip(w) ELSE <<>>,
     phonetic |-> ph,
     mean     |-> IF Truthy(mn) THEN ProcessMean(mn) ELSE <<>>,
     anki     |-> an]

(***************************************************************************)
(* StarDict                                                                *)
(***************************************************************************)
\* StarDict.__init__
StarDict(hanzi, hanzi_anki, mn, mean_anki) ==
    [hanzi |-> hanzi, hanzi_anki |-> hanzi_anki, mean |-> mn, mean_anki |-> mean_anki]

\* An element of an entry: tag, its text (the keb / reb / gloss text),
\* the xml:lang of the gloss and the texts of the misc children.
Elem(tag, text, lang, misc) == [tag |-> tag, text |-> text, lang |-> lang, misc |-> misc]

\* Faulty variant of ToXmlSenseElements: the meaning sense is made without the test
\* of self.mean.
ToXmlSenseElementsNoTest(sd) ==
    <<Elem("sense", sd.mean, "vi",
           IF Truthy(sd.mean_anki) THEN <<sd.mean_anki>> ELSE <<>>)>>
    \o
    (IF Truthy(sd.hanzi)
     THEN <<Elem("sense", sd.hanzi, "", sd.hanzi_anki)>>
     ELSE <<>>)

\* StarDict.to_xml_sense_elements
ToXmlSenseElements(sd) ==
    (IF Truthy(sd.mean)
     THEN <<Elem("sense", sd.mean, "vi",
                 IF Truthy(sd.mean_anki) THEN <<sd.mean_anki>> ELSE <<>>)>>
     ELSE <<>>)
    \o
    (IF Truthy(sd.hanzi)
     THEN <<Elem("sense", sd.hanzi, "", sd.hanzi_anki)>>
     ELSE <<>>)

(***************************************************************************)
(* SpecMean: a store row's meaning text through Word and StarDict          *)
(***************************************************************************)
MaxMeanLen == 3

\* ' ', ';', 'a', U+1EBF (in the Vietnamese band), U+1680 (a space in the band)
MeanAlphabet == {32, 59, 97, 7871, 5760}

RECURSIVE Texts(_, _)
Texts(alphabet, n) ==
    IF n = 0 THEN {<<>>}
    ELSE LET shorter == Texts(alphabet, n - 1)
         IN  shorter \cup {Append(t, c) : t \in {u \in shorter : Len(u) = n - 1}, c \in alphabet}

NoWord == [word |-> None, phonetic |-> None, mean |-> None, anki |-> None]

\* The variables of a specification that is not the one being run.
FindIdle ==
    /\ conn = [ok |-> FALSE, words |-> <<>>, kanji |-> <<>>]
    /\ kanji_elements = <<>>
    /\ reading_elements = <<>>
    /\ fi = 0
    /\ found = NoWord
    /\ fpc = "off"

RunIdle ==
    /\ store = "ok"
    /\ num_processes = 0
    /\ entries = <<>>
    /\ root = <<>>
    /\ entry_strs = <<>>
    /\ workers = <<>>
    /\ dispatched = 0
    /\ task_results = <<>>
    /\ served = <<>>
    /\ overtook = FALSE
    /\ next_conn = 1
    /\ closed = {}
    /\ modified_entry_strs = <<>>
    /\ rpc = "off"
    /\ ui = 0
    /\ output = <<>>

EntryIdle ==
    /\ entry_str = [xml |-> <<>>, tail |-> None]
    /\ entry = [children |-> <<>>, tail |-> None]
    /\ kanjis = <<>>
    /\ xml_sense_elements = <<>>
    /\ returned = [ok |-> FALSE, exc |-> "none"]
    /\ epc = "off"

MeanIdle ==
    /\ mean = None
    /\ anki = None
    /\ word = NoWord
    /\ sense_elements = <<>>
    /\ mpc = "off"

InitMean ==
    /\ RunIdle
    /\ FindIdle
    /\ EntryIdle
    /\ mean \in Texts(MeanAlphabet, MaxMeanLen) \cup {None}
    /\ anki \in {None, <<>>, <<110>>}
    /\ word = NoWord
    /\ sense_elements = <<>>
    /\ mpc = "row"

\* get_words line 103: the row becomes a Word
MakeWord ==
    /\ mpc = "row"
    /\ word' = Word(<<97>>, None, mean, anki)
    /\ mpc' = "word"
    /\ UNCHANGED <<mean, anki, sense_elements, findVars, entryVars, runVars>>

\* process_entry lines 194-202 for a matched word and no characters
MakeSenses ==
    /\ mpc = "word"
    /\ sense_elements' = ToXmlSenseElements(StarDict(<<>>, <<>>, word.mean, word.anki))
    /\ mpc' = "senses"
    /\ UNCHANGED <<mean, anki, word, findVars, entryVars, runVars>>

NextMean == MakeWord \/ MakeSenses

SpecMean == InitMean /\ [][NextMean]_vars

(***************************************************************************)
(* C7: the meaning-sense gloss                                             *)
(***************************************************************************)
C7_Semis(s) == {i \in 1..Len(s) : s[i] = 59}

C7_NthSemi(s, k) ==
    CHOOSE i \in C7_Semis(s) : Cardinality({j \in C7_Semis(s) : j <= i}) = k

\* the k-th ';'-separated clause of s, k in 1..(number of ';' + 1)
C7_Clause(s, k) ==
    LET n  == Cardinality(C7_Semis(s))
        lo == IF k = 1 THEN 1 ELSE C7_NthSemi(s, k - 1) + 1
        hi == IF k = n + 1 THEN Len(s) ELSE C7_NthSemi(s, k) - 1
    IN  SubSeq(s, lo, hi)

C7_Trim(c) ==
    LET ink == {i \in 1..Len(c) : ~IsSpace(c[i])}
    IN  IF ink = {} THEN <<>>
        ELSE SubSeq(c, CHOOSE i \in ink : \A j \in ink : i <= j,
                       CHOOSE i \in ink : \A j \in ink : i >= j)

C7_InBand(c) == \E i \in 1..Len(c) : c[i] >= 192 /\ c[i] <= 7929

RECURSIVE C7_JoinClauses(_)
C7_JoinClauses(q) ==
    IF Len(q) = 1 THEN q[1] ELSE q[1] \o <<59, 32>> \o C7_JoinClauses(Tail(q))

C7_Expected(s) ==
    LET n  == Cardinality(C7_Semis(s))
        cl == [k \in 1..(n + 1) |-> C7_Trim(C7_Clause(s, k))]
        q  == SelectSeq(cl, C7_InBand)
    IN  IF q = <<>> THEN s ELSE C7_JoinClauses(q)

\* C7: for a matched record with non-empty meaning text, the one sense made
\* from it is tagged "vi" and its gloss is the '; '-join, in order, of the
\* trimmed ';'-separated clauses that hold a character in U+00C0..U+1EF9,
\* or the whole meaning text unchanged when no clause qualifies.
C7_GlossIsVietnameseClauses ==
    (mpc = "senses" /\ Truthy(mean)) =>
        /\ Len(sense_elements) = 1
        /\ sense_elements[1].lang = "vi"
        /\ sense_elements[1].text = C7_Expected(mean)

\* a meaning text with several clauses of which some, not all, were kept
C7_Witness ==
    /\ mpc = "senses"
    /\ Truthy(mean)
    /\ C7_Semis(mean) # {}
    /\ Len(sense_elements) = 1
    /\ sense_elements[1].text # mean
    /\ \E k \in 1..(Cardinality(C7_Semis(mean)) + 1) : ~C7_InBand(C7_Trim(C7_Clause(mean, k)))

(***************************************************************************)
(* The translation store and its queries                                   *)
(***************************************************************************)
\* A connection: whether its queries succeed (they raise sqlite3.Error when
\* the file holds no tables), the rows of words in the order the store
\* returns them, and the rows of kanji.
Conn(ok, words, kanji) == [ok |-> ok, words |-> words, kanji |-> kanji]

WordRow(w, ph, mn, an) == [word |-> w, phonetic |-> ph, mean |-> mn, anki |-> an]

\* str(x) inside an f-string
PyStr(x) == IF x = None THEN <<78, 111, 110, 101>> ELSE x

\* SQLite LIKE compares ASCII letters without case.
Fold(c) == IF c >= 65 /\ c <= 90 THEN c + 32 ELSE c

\* SQLite LIKE: '%' (37) matches any run of characters, '_' (95) any one.
RECURSIVE Like(_, _)
Like(p, t) ==
    IF p = <<>> THEN t = <<>>
    ELSE IF Head(p) = 37
         THEN \E k \in 0..Len(t) : Like(Tail(p), SubSeq(t, k + 1, Len(t)))
    ELSE IF t = <<>> THEN FALSE
    ELSE (Head(p) = 95 \/ Fold(Head(p)) = Fold(Head(t))) /\ Like(Tail(p), Tail(t))

\* get_words line 103: one row becomes one Word
RowToWord(r) == Word(r.word, r.phonetic, r.mean, r.anki)

\* get_words
GetWords(c, search_word) ==
    IF ~c.ok THEN <<>>
    ELSE LET exact == SelectSeq(c.words,
                 LAMBDA r : search_word # None /\ r.word # None /\ r.word = search_word)
             phon  == SelectSeq(c.words,
                 LAMBDA r : r.phonetic # None
                            /\ Like(<<37>> \o PyStr(search_word) \o <<37>>, r.phonetic))
             results == IF exact # <<>> THEN exact ELSE phon
         IN  [i \in 1..Len(results) |-> RowToWord(results[i])]

Found(w) == w # NoWord

\* filter_word
FilterWord(input_word, word_list) ==
    LET exact(w) == w.word = input_word
        phon(w)  == Truthy(w.phonetic)
                    /\ \E k \in 1..Len(Split(w.phonetic, Space)) :
                           Split(w.phonetic, Space)[k] = input_word
    IN  IF word_list = <<>> THEN NoWord
        ELSE IF \E i \in 1..Len(word_list) : exact(word_list[i])
             THEN word_list[CHOOSE i \in 1..Len(word_list) :
                      exact(word_list[i]) /\ \A j \in 1..(i - 1) : ~exact(word_list[j])]
        ELSE IF \E i \in 1..Len(word_list) : phon(word_list[i])
             THEN word_list[CHOOSE i \in 1..Len(word_list) :
                      phon(word_list[i]) /\ \A j \in 1..(i - 1) : ~phon(word_list[j])]
        ELSE NoWord

\* find_relevant_word lines 154-156 / 160-162: one form
MatchForm(c, form) == FilterWord(form, GetWords(c, form))

RECURSIVE FirstMatch(_, _)
FirstMatch(c, forms) ==
    IF forms = <<>> THEN NoWord
    ELSE LET w == MatchForm(c, Head(forms))
         IN  IF Found(w) THEN w ELSE FirstMatch(c, Tail(forms))

\* find_relevant_word
FindRelevantWord(c, kebs, rebs) ==
    LET w == FirstMatch(c, kebs)
    IN  IF Found(w) THEN w ELSE FirstMatch(c, rebs)

(***************************************************************************)
(* SpecFind: find_relevant_word, one loop iteration per step               *)
(***************************************************************************)
MaxRows == 2
MaxForms == 2

RECURSIVE SeqsUpTo(_, _)
SeqsUpTo(S, n) ==
    IF n = 0 THEN {<<>>}
    ELSE LET shorter == SeqsUpTo(S, n - 1)
         IN  shorter \cup {Append(t, x) : t \in {u \in shorter : Len(u) = n - 1}, x \in S}

\* headwords "a", "a " and "b"; phonetic fields NULL, "a", "ab" and "b a"
FindRows ==
    {WordRow(w, ph, <<7871>>, None) :
        w \in {<<97>>, <<97, 32>>, <<98>>},
        ph \in {None, <<97>>, <<97, 98>>, <<98, 32, 97>>}}

InitFind ==
    /\ RunIdle
    /\ MeanIdle
    /\ EntryIdle
    /\ conn \in {Conn(TRUE, rows, <<>>) : rows \in SeqsUpTo(FindRows, MaxRows)}
    /\ kanji_elements \in SeqsUpTo({<<97>>, <<98>>}, MaxForms)
    /\ reading_elements \in SeqsUpTo({<<97>>, None}, MaxForms)
    /\ fi = 0
    /\ found = NoWord
    /\ fpc = "kebs"

\* lines 153-158: one headword form
TryKeb ==
    /\ fpc = "kebs"
    /\ fi < Len(kanji_elements)
    /\ LET w == MatchForm(conn, kanji_elements[fi + 1])
       IN  IF Found(w)
           THEN found' = w /\ fpc' = "done" /\ fi' = fi
           ELSE found' = found /\ fpc' = fpc /\ fi' = fi + 1
    /\ UNCHANGED <<conn, kanji_elements, reading_elements, meanVars, entryVars, runVars>>

\* line 159: the headword forms are exhausted
KebsDone ==
    /\ fpc = "kebs"
    /\ fi = Len(kanji_elements)
    /\ fpc' = "rebs"
    /\ fi' = 0
    /\ UNCHANGED <<conn, kanji_elements, reading_elements, found, meanVars, entryVars, runVars>>

\* lines 159-164: one reading form
TryReb ==
    /\ fpc = "rebs"
    /\ fi < Len(reading_elements)
    /\ LET w == MatchForm(conn, reading_elements[fi + 1])
       IN  IF Found(w)
           THEN found' = w /\ fpc' = "done" /\ fi' = fi
           ELSE found' = found /\ fpc' = fpc /\ fi' = fi + 1
    /\ UNCHANGED <<conn, kanji_elements, reading_elements, meanVars, entryVars, runVars>>

\* line 165
ReturnNone ==
    /\ fpc = "rebs"
    /\ fi = Len(reading_elements)
    /\ found' = NoWord
    /\ fpc' = "done"
    /\ UNCHANGED <<conn, kanji_elements, reading_elements, fi, meanVars, entryVars, runVars>>

NextFind == TryKeb \/ KebsDone \/ TryReb \/ ReturnNone

SpecFind == InitFind /\ [][NextFind]_vars

(***************************************************************************)
(* C5: what find_relevant_word returns                                     *)
(***************************************************************************)
C5_Tokens(ph) == {Split(ph, 32)[k] : k \in 1..Len(Split(ph, 32))}

C5_Substring(f, t) ==
    \E a \in 1..(Len(t) + 1) : \E b \in (a - 1)..Len(t) : SubSeq(t, a, b) = f

C5_ExactRow(f, r) == f # None /\ r.word = f

C5_PhoneticRow(f, r) ==
    /\ f # None
    /\ r.phonetic # None
    /\ C5_Substring(f, r.phonetic)
    /\ f \in C5_Tokens(r.phonetic)

\* the accepted candidate of one form as the claim states it
C5_Accepted(f) ==
    IF \E i \in 1..Len(conn.words) : C5_ExactRow(f, conn.words[i])
    THEN RowToWord(conn.words[CHOOSE i \in 1..Len(conn.words) :
             /\ C5_ExactRow(f, conn.words[i])
             /\ \A j \in 1..(i - 1) : ~C5_ExactRow(f, conn.words[j])])
    ELSE IF \E i \in 1..Len(conn.words) : C5_PhoneticRow(f, conn.words[i])
    THEN RowToWord(conn.words[CHOOSE i \in 1..Len(conn.words) :
             /\ C5_PhoneticRow(f, conn.words[i])
             /\ \A j \in 1..(i - 1) : ~C5_PhoneticRow(f, conn.words[j])])
    ELSE NoWord

RECURSIVE C5_FirstAccepted(_)
C5_FirstAccepted(forms) ==
    IF forms = <<>> THEN NoWord
    ELSE IF C5_Accepted(Head(forms)) # NoWord THEN C5_Accepted(Head(forms))
    ELSE C5_FirstAccepted(Tail(forms))

FindLoopIsFindRelevantWord ==
    fpc = "done" => found = FindRelevantWord(conn, kanji_elements, reading_elements)

\* without padded headwords in the store the claim's reading holds
C5_NoPaddedHeadword ==
    \A i \in 1..Len(conn.words) : Strip(conn.words[i].word) = conn.words[i].word

C5_HoldsWithoutPadding ==
    (fpc = "done" /\ C5_NoPaddedHeadword) =>
        found = C5_FirstAccepted(kanji_elements \o reading_elements)

(***************************************************************************)
(* Serialized entries                                                      *)
(***************************************************************************)
\* An entry element: its children in document order and its tail, the text
\* that follows its end tag in the parent.  A k_ele / r_ele child stands for
\* the element with its one keb / reb, whose text is the child's text.
Entry(children, tail) == [children |-> children, tail |-> tail]

\* ET.tostring(element, encoding='unicode'): the markup of the element
\* followed by its tail.  The text is kept as these two parts.
Tostring(e) == [xml |-> e.children, tail |-> e.tail]

\* The characters an XML document may hold (XML 1.0 production Char).
IsXmlChar(c) ==
    \/ c \in {9, 10, 13}
    \/ (c >= 32 /\ c <= 55295)
    \/ (c >= 57344 /\ c <= 65533)
    \/ (c >= 65536 /\ c <= 1114111)

LegalText(t) == t = None \/ \A i \in 1..Len(t) : IsXmlChar(t[i])

\* Whether expat accepts the text: every character is an XML character and
\* only white space follows the end tag of the document element.
WellFormed(str) ==
    /\ \A i \in 1..Len(str.xml) :
           /\ LegalText(str.xml[i].text)
           /\ \A k \in 1..Len(str.xml[i].misc) : LegalText(str.xml[i].misc[k])
    /\ (str.tail = None \/ \A i \in 1..Len(str.tail) : str.tail[i] \in {9, 10, 13, 32})

\* ET.fromstring(text): ParseError, or the element; the parsed element has
\* no tail (what follows the document element is dropped).
Fromstring(str) ==
    IF WellFormed(str)
    THEN [ok |-> TRUE, elem |-> Entry(str.xml, None)]
    ELSE [ok |-> FALSE, exc |-> "ParseError"]

\* entry.findall('./k_ele/keb') / entry.findall('./r_ele/reb'): the texts
TextsOf(children, tag) ==
    LET sel == SelectSeq(children, LAMBDA ch : ch.tag = tag)
    IN  [i \in 1..Len(sel) |-> sel[i].text]

(***************************************************************************)
(* Character records                                                       *)
(***************************************************************************)
KanjiRow(k, hanzi, an) == [kanji |-> k, hanzi |-> hanzi, anki |-> an]

NoKanji == [kanji |-> None, hanzi |-> None, anki |-> None]

\* get_kanji
GetKanji(c, kanji_char) ==
    IF ~c.ok THEN NoKanji
    ELSE IF \E i \in 1..Len(c.kanji) : c.kanji[i].kanji = <<kanji_char>>
    THEN c.kanji[CHOOSE i \in 1..Len(c.kanji) :
             /\ c.kanji[i].kanji = <<kanji_char>>
             /\ \A j \in 1..(i - 1) : c.kanji[j].kanji # <<kanji_char>>]
    ELSE NoKanji

\* get_kanji_from_word, for a word that is text
RECURSIVE GetKanjiFromWord(_, _)
GetKanjiFromWord(c, w) ==
    IF w = <<>> THEN <<>>
    ELSE (IF KanjiLo <= Head(w) /\ Head(w) <= KanjiHi /\ GetKanji(c, Head(w)) # NoKanji
          THEN <<GetKanji(c, Head(w))>>
          ELSE <<>>)
         \o GetKanjiFromWord(c, Tail(w))

\* Faulty variant of AddUnseen: no seen_kanji test.
AddAlways(acc, ks) == acc \o ks

\* process_entry lines 185-188: append the records not seen before
RECURSIVE AddUnseen(_, _)
AddUnseen(acc, ks) ==
    IF ks = <<>> THEN acc
    ELSE IF \E i \in 1..Len(acc) : acc[i].kanji = Head(ks).kanji
         THEN AddUnseen(acc, Tail(ks))
         ELSE AddUnseen(Append(acc, Head(ks)), Tail(ks))

\* process_entry lines 181-188, for headword forms that are all text
RECURSIVE CollectKanjis(_, _, _)
CollectKanjis(c, kebs, acc) ==
    IF kebs = <<>> THEN acc
    ELSE CollectKanjis(c, Tail(kebs), AddUnseen(acc, GetKanjiFromWord(c, Head(kebs))))

\* process_entry lines 194-199
MakeStarDict(ks, w) ==
    LET withHanzi == SelectSeq(ks, LAMBDA k : Truthy(k.hanzi))
        withAnki  == SelectSeq(ks, LAMBDA k : Truthy(k.anki))
    IN  StarDict(Join([i \in 1..Len(withHanzi) |-> withHanzi[i].hanzi], <<Space, Bar, Space>>),
                 [i \in 1..Len(withAnki) |->
                     withAnki[i].kanji \o <<Space, Colon, Space>> \o withAnki[i].anki],
                 IF Found(w) THEN w.mean ELSE <<>>,
                 IF Found(w) THEN w.anki ELSE <<>>)

(***************************************************************************)
(* Entry merger                                                            *)
(***************************************************************************)
\* list.insert(index, elem), index counted from 0
Insert(children, index, elem) ==
    SubSeq(children, 1, index) \o <<elem>> \o SubSeq(children, index + 1, Len(children))

Reversed(xs) == [i \in 1..Len(xs) |-> xs[Len(xs) + 1 - i]]

RECURSIVE InsertEach(_, _, _)
InsertEach(children, index, elems) ==
    IF elems = <<>> THEN children
    ELSE InsertEach(Insert(children, index, Head(elems)), index, Tail(elems))

\* Faulty variant of InsertSenses: the new elements are inserted in list order.
InsertSensesForward(children, first_sense_index, elems) ==
    InsertEach(children, first_sense_index, elems)

\* process_entry lines 207-208
InsertSenses(children, first_sense_index, elems) ==
    InsertEach(children, first_sense_index, Reversed(elems))

\* process_entry lines 203-211
MergeSenses(children, elems) ==
    IF elems = <<>> THEN children
    ELSE IF \E i \in 1..Len(children) : children[i].tag = "sense"
    THEN LET first_sense_index ==
                 (CHOOSE i \in 1..Len(children) :
                      /\ children[i].tag = "sense"
                      /\ \A j \in 1..(i - 1) : children[j].tag # "sense") - 1
         IN  InsertSenses(children, first_sense_index, elems)
    ELSE children \o elems

\* process_entry: the string returned, or the exception raised
ProcessEntry(c, str) ==
    LET parsed == Fromstring(str)
    IN  IF ~parsed.ok THEN [ok |-> FALSE, exc |-> "ParseError"]
        ELSE LET kebs == TextsOf(parsed.elem.children, "k_ele")
                 rebs == TextsOf(parsed.elem.children, "r_ele")
             IN  IF \E i \in 1..Len(kebs) : kebs[i] = None
                 THEN [ok |-> FALSE, exc |-> "TypeError"]
                 ELSE LET ks == CollectKanjis(c, kebs, <<>>)
                          w  == FindRelevantWord(c, kebs, rebs)
                          xs == ToXmlSenseElements(MakeStarDict(ks, w))
                      IN  [ok  |-> TRUE,
                           str |-> Tostring(Entry(MergeSenses(parsed.elem.children, xs), None))]

(***************************************************************************)
(* SpecEntry: process_entry on one entry, one block of the body per step   *)
(***************************************************************************)
MaxChildren == 3

\* ent_seq; headword forms U+65E5 U+65E5, U+672C U+65E5, U+4E00 U+3042
\* and one without text; a reading form U+3042; a sense
EntryChildren ==
    {Elem("ent_seq", <<49>>, "", <<>>),
     Elem("k_ele", <<26085, 26085>>, "", <<>>),
     Elem("k_ele", <<26412, 26085>>, "", <<>>),
     Elem("k_ele", <<19968, 12354>>, "", <<>>),
     Elem("k_ele", None, "", <<>>),
     Elem("r_ele", <<12354>>, "", <<>>),
     Elem("sense", <<120>>, "", <<>>)}

\* rows of words: headword U+672C U+65E5; headword 'x' read U+3042
EntryWords ==
    <<WordRow(<<26412, 26085>>, None, <<7871, 59, 97>>, <<110>>),
      WordRow(<<120>>, <<12354>>, <<7871>>, None)>>

\* rows of kanji for U+65E5, U+672C and U+4E00
EntryKanji ==
    <<KanjiRow(<<26085>>, <<110>>, <<100>>),
      KanjiRow(<<26412>>, None, <<98>>),
      KanjiRow(<<19968>>, <<118>>, None)>>

EntryConns ==
    {Conn(TRUE, ws, ks) : ws \in {<<>>, EntryWords}, ks \in {<<>>, EntryKanji}}
    \cup {Conn(TRUE, <<>>, <<KanjiRow(<<26412>>, None, <<98>>)>>),
          Conn(FALSE, EntryWords, EntryKanji)}

InitEntry ==
    /\ MeanIdle
    /\ RunIdle
    /\ conn \in EntryConns
    /\ kanji_elements = <<>>
    /\ reading_elements = <<>>
    /\ fi = 0
    /\ found = NoWord
    /\ fpc = "off"
    /\ entry_str \in {Tostring(Entry(ch, <<10>>)) : ch \in SeqsUpTo(EntryChildren, MaxChildren)}
    /\ entry = Entry(<<>>, None)
    /\ kanjis = <<>>
    /\ xml_sense_elements = <<>>
    /\ returned = [ok |-> FALSE, exc |-> "none"]
    /\ epc = "parse"

\* lines 176-178
ParseEntry ==
    /\ epc = "parse"
    /\ LET parsed == Fromstring(entry_str)
       IN  IF parsed.ok
           THEN /\ entry' = parsed.elem
                /\ kanji_elements' = TextsOf(parsed.elem.children, "k_ele")
                /\ reading_elements' = TextsOf(parsed.elem.children, "r_ele")
                /\ epc' = "collect"
                /\ UNCHANGED returned
           ELSE /\ returned' = [ok |-> FALSE, exc |-> "ParseError"]
                /\ epc' = "raised"
                /\ UNCHANGED <<entry, kanji_elements, reading_elements>>
    /\ UNCHANGED <<conn, fi, found, fpc, entry_str, kanjis, xml_sense_elements, meanVars, runVars>>

\* lines 181-188
CollectStep ==
    /\ epc = "collect"
    /\ IF \E i \in 1..Len(kanji_elements) : kanji_elements[i] = None
       THEN /\ returned' = [ok |-> FALSE, exc |-> "TypeError"]
            /\ epc' = "raised"
            /\ UNCHANGED kanjis
       ELSE /\ kanjis' = CollectKanjis(conn, kanji_elements, <<>>)
            /\ epc' = "find"
            /\ UNCHANGED returned
    /\ UNCHANGED <<conn, kanji_elements, reading_elements, fi, found, fpc,
                   entry_str, entry, xml_sense_elements, meanVars, runVars>>

\* line 191
FindStep ==
    /\ epc = "find"
    /\ found' = FindRelevantWord(conn, kanji_elements, reading_elements)
    /\ epc' = "synthesize"
    /\ UNCHANGED <<conn, kanji_elements, reading_elements, fi, fpc,
                   entry_str, entry, kanjis, xml_sense_elements, returned, meanVars, runVars>>

\* lines 194-202
SynthesizeStep ==
    /\ epc = "synthesize"
    /\ xml_sense_elements' = ToXmlSenseElements(MakeStarDict(kanjis, found))
    /\ epc' = "merge"
    /\ UNCHANGED <<findVars, entry_str, entry, kanjis, returned, meanVars, runVars>>

\* lines 203-214
MergeStep ==
    /\ epc = "merge"
    /\ entry' = Entry(MergeSenses(entry.children, xml_sense_elements), entry.tail)
    /\ returned' = [ok |-> TRUE, str |-> Tostring(entry')]
    /\ epc' = "returned"
    /\ UNCHANGED <<findVars, entry_str, kanjis, xml_sense_elements, meanVars, runVars>>

NextEntry == ParseEntry \/ CollectStep \/ FindStep \/ SynthesizeStep \/ MergeStep

SpecEntry == InitEntry /\ [][NextEntry]_vars

\* the steps and the operator used by the pool workers agree
StepsAreProcessEntry ==
    epc \in {"returned", "raised"} => returned = ProcessEntry(conn, entry_str)

(***************************************************************************)
(* C2: entries without a qualifying record                                 *)
(***************************************************************************)
\* C2 as stated: whenever find_relevant_word yields no record, the entry
\* process_entry returns has the children of its input and no sense added.
C2_NoMatchReturnsInput ==
    (epc = "returned" /\ ~Found(found)) => returned.str.xml = entry_str.xml

\* C2 amended: whenever find_relevant_word yields no record and no collected
\* character record has an alternate rendering, the entry process_entry
\* returns has the children of its input, in order, and no sense added; its
\* serialized form no longer carries the text that followed the entry.
C2_NoMatchNoHanziReturnsInput ==
    (/\ epc = "returned"
     /\ ~Found(found)
     /\ \A i \in 1..Len(kanjis) : ~Truthy(kanjis[i].hanzi)) =>
        /\ returned.ok
        /\ returned.str.xml = entry_str.xml
        /\ returned.str.tail = None

\* no record matched although the entry has forms and a character record
C2_Witness ==
    /\ epc = "returned"
    /\ ~Found(found)
    /\ kanjis # <<>>
    /\ \A i \in 1..Len(kanjis) : ~Truthy(kanjis[i].hanzi)
    /\ kanji_elements # <<>>
    /\ returned.str.xml = entry_str.xml

(***************************************************************************)
(* C6: where the new sense blocks go                                       *)
(***************************************************************************)
C6_Senses(children) == {i \in 1..Len(children) : children[i].tag = "sense"}

\* position of the first sense child, or one past the last child
C6_Place(children) ==
    IF C6_Senses(children) = {} THEN Len(children) + 1
    ELSE CHOOSE i \in C6_Senses(children) : \A j \in C6_Senses(children) : i <= j

\* C6: with a non-empty list of synthesized blocks, the merged entry is the
\* input's children with the blocks, in synthesis order (the "vi" meaning
\* sense before the character sense), placed as one run right before the
\* first pre-existing sense, or at the end when there was none; all other
\* children are kept in their order.
C6_BlocksBeforeFirstSense ==
    (epc = "returned" /\ xml_sense_elements # <<>>) =>
        LET old == entry_str.xml
            new == returned.str.xml
            p   == C6_Place(old)
        IN  /\ new = SubSeq(old, 1, p - 1) \o xml_sense_elements \o SubSeq(old, p, Len(old))
            /\ Len(xml_sense_elements) = 2 =>
                   /\ xml_sense_elements[1].lang = "vi"
                   /\ xml_sense_elements[1].text = found.mean
                   /\ xml_sense_elements[2].lang = ""

\* both blocks were made and the entry had a sense that was not its first child
C6_Witness ==
    /\ epc = "returned"
    /\ Len(xml_sense_elements) = 2
    /\ C6_Senses(entry_str.xml) # {}
    /\ C6_Place(entry_str.xml) > 1
    /\ C6_Place(entry_str.xml) < Len(entry_str.xml)

(***************************************************************************)
(* C8: the collected character records                                     *)
(***************************************************************************)
RECURSIVE C8_Flatten(_)
C8_Flatten(ts) == IF ts = <<>> THEN <<>> ELSE Head(ts) \o C8_Flatten(Tail(ts))

C8_Chars == C8_Flatten(kanji_elements)

C8_Hit(c) ==
    /\ c >= 19968 /\ c <= 40959
    /\ conn.ok
    /\ \E i \in 1..Len(conn.kanji) : conn.kanji[i].kanji = <<c>>

C8_FirstAt(c) ==
    CHOOSE p \in 1..Len(C8_Chars) :
        C8_Chars[p] = c /\ \A q \in 1..(p - 1) : C8_Chars[q] # c

C8_Count(xs, P(_)) == Cardinality({i \in 1..Len(xs) : P(xs[i])})

\* C8: the collected list holds each character that has a record once, in
\* the order of first occurrence over the headword forms; in the character
\* sense a character with an alternate rendering gives one part of the
\* ' | '-joined gloss and a character with an annotation gives one note.
C8_CharactersOnceInOrder ==
    (epc \in {"find", "synthesize", "merge", "returned"}) =>
        /\ \A i, j \in 1..Len(kanjis) : i # j => kanjis[i].kanji # kanjis[j].kanji
        /\ {kanjis[i].kanji : i \in 1..Len(kanjis)}
             = {<<C8_Chars[p]>> : p \in {q \in 1..Len(C8_Chars) : C8_Hit(C8_Chars[q])}}
        /\ \A i, j \in 1..Len(kanjis) :
               i < j => C8_FirstAt(kanjis[i].kanji[1]) < C8_FirstAt(kanjis[j].kanji[1])
        /\ (epc \in {"merge", "returned"}) =>
               LET cs == SelectSeq(xml_sense_elements, LAMBDA x : x.lang = "")
               IN  /\ Len(cs) = IF \E i \in 1..Len(kanjis) : Truthy(kanjis[i].hanzi) THEN 1 ELSE 0
                   /\ Len(cs) = 1 =>
                        /\ Len(Split(cs[1].text, 124))
                             = C8_Count(kanjis, LAMBDA k : Truthy(k.hanzi))
                        /\ \A i \in 1..Len(kanjis) :
                             /\ Truthy(kanjis[i].hanzi) =>
                                  C8_Count(Split(cs[1].text, 124),
                                           LAMBDA t : Strip(t) = kanjis[i].hanzi) = 1
                             /\ C8_Count(cs[1].misc,
                                         LAMBDA t : SubSeq(t, 1, 1) = kanjis[i].kanji)
                                  = IF Truthy(kanjis[i].anki) THEN 1 ELSE 0

\* a character repeated inside one form and again in another form
C8_Witness ==
    /\ epc = "returned"
    /\ Len(kanjis) >= 2
    /\ \E c \in {26085} :
          /\ \E i \in 1..Len(kanji_elements) :
                 C8_Count(kanji_elements[i], LAMBDA x : x = c) = 2
          /\ C8_Count(kanji_elements, LAMBDA t : \E q \in 1..Len(t) : t[q] = c) >= 2
          /\ \E i \in 1..Len(kanjis) : kanjis[i].kanji = <<c>>

(***************************************************************************)
(* The pool and the main process                                           *)
(***************************************************************************)
\* What sqlite3.connect(db_path) gives a worker: a database with its tables,
\* or, for a path that names no file yet, a new empty database on which
\* every query raises sqlite3.Error.  (For a path that cannot be opened
\* connect itself raises: see InitWorker.)
RunWords ==
    <<WordRow(<<26412, 26085>>, None, <<7871, 59, 97>>, <<110>>),
      WordRow(<<12354>>, None, <<7871, 8>>, None)>>

Database(st) ==
    IF st = "ok" THEN Conn(TRUE, RunWords, EntryKanji) ELSE Conn(FALSE, <<>>, <<>>)

Worker(state, task, c) == [state |-> state, task |-> task, conn |-> c]

NotReady == [ok |-> FALSE, exc |-> "not ready"]

Ready(r) == r # NotReady

\* Faulty variant of Connect: one connection, made once, is handed to every worker.
ConnectShared(w, fresh) == 1

\* init_worker line 171: the connection a worker process opens for itself
Connect(w, fresh) == fresh

\* Faulty variant of ImapNext: a result is taken as soon as it is ready.
ImapNextUnordered(res, n) == {k \in (n + 1)..Len(res) : Ready(res[k])}

\* pool.imap line 234: the results come in the order of the tasks; n results
\* were taken, the next is that of task n + 1, once it is there
ImapNext(res, n) == {k \in {n + 1} : k <= Len(res) /\ Ready(res[k])}

\* Faulty variant of UpdateRoot: an unparsable result leaves an empty entry.
UpdateRootNoFallback(r, i, modified_str, orig) ==
    [r EXCEPT ![i] = IF Fromstring(modified_str).ok
                     THEN Fromstring(modified_str).elem
                     ELSE Entry(<<>>, None)]

\* lines 242-246: root[i] = ET.fromstring(modified_str), or the original
\* entry when that raises ParseError (i counted from 1 here)
UpdateRoot(r, i, modified_str, orig) ==
    [r EXCEPT ![i] = IF Fromstring(modified_str).ok
                     THEN Fromstring(modified_str).elem
                     ELSE orig[i]]

(***************************************************************************)
(* SpecRun: update_jmdict_with_vietnamese_parallel                         *)
(***************************************************************************)
MaxEntries == 2
MaxProcesses == 2

\* entries: a headword with a record and characters; a reading whose record
\* holds U+0008 in its meaning; a headword form without text; no form
RunEntries ==
    {Entry(<<Elem("k_ele", <<26412, 26085>>, "", <<>>), Elem("sense", <<120>>, "", <<>>)>>, <<10>>),
     Entry(<<Elem("r_ele", <<12354>>, "", <<>>), Elem("sense", <<121>>, "", <<>>)>>, <<10>>),
     Entry(<<Elem("k_ele", None, "", <<>>), Elem("sense", <<122>>, "", <<>>)>>, <<10>>),
     Entry(<<Elem("ent_seq", <<49>>, "", <<>>), Elem("sense", <<119>>, "", <<>>)>>, <<10>>)}

\* lines 223-232: the corpus is read, serialized and the pool is started
InitRun ==
    /\ MeanIdle
    /\ FindIdle
    /\ EntryIdle
    /\ store \in {"ok", "missing", "unopenable"}
    /\ num_processes \in 1..MaxProcesses
    /\ entries \in SeqsUpTo(RunEntries, MaxEntries)
    /\ root = entries
    /\ entry_strs = [i \in 1..Len(entries) |-> Tostring(entries[i])]
    /\ workers = [w \in 1..num_processes |-> Worker("starting", 0, 0)]
    /\ dispatched = 0
    /\ task_results = [i \in 1..Len(entries) |-> NotReady]
    /\ served = [i \in 1..Len(entries) |-> [worker |-> 0, conn |-> 0]]
    /\ overtook = FALSE
    /\ next_conn = 1
    /\ closed = {}
    /\ modified_entry_strs = <<>>
    /\ rpc = "map"
    /\ ui = 0
    /\ output = <<>>

\* init_worker in a new worker process; when connect raises the process dies
InitWorker(w) ==
    /\ rpc = "map"
    /\ workers[w].state = "starting"
    /\ IF store = "unopenable"
       THEN /\ workers' = [workers EXCEPT ![w] = Worker("exited", 0, 0)]
            /\ UNCHANGED next_conn
       ELSE /\ workers' = [workers EXCEPT ![w] = Worker("idle", 0, Connect(w, next_conn))]
            /\ next_conn' = next_conn + 1
    /\ UNCHANGED <<store, num_processes, entries, root, entry_strs, dispatched, task_results,
                   served, overtook, closed, modified_entry_strs, rpc, ui, output,
                   meanVars, findVars, entryVars>>

\* multiprocessing.Pool replaces a worker process that has exited
Respawn(w) ==
    /\ rpc = "map"
    /\ workers[w].state = "exited"
    /\ workers' = [workers EXCEPT ![w] = Worker("starting", 0, 0)]
    /\ UNCHANGED <<store, num_processes, entries, root, entry_strs, dispatched, task_results,
                   served, overtook, next_conn, closed, modified_entry_strs, rpc, ui, output,
                   meanVars, findVars, entryVars>>

\* a worker takes the next task of the queue
TakeTask(w) ==
    /\ rpc = "map"
    /\ workers[w].state = "idle"
    /\ dispatched < Len(entry_strs)
    /\ dispatched' = dispatched + 1
    /\ workers' = [workers EXCEPT ![w] = Worker("busy", dispatched + 1, workers[w].conn)]
    /\ UNCHANGED <<store, num_processes, entries, root, entry_strs, task_results,
                   served, overtook, next_conn, closed, modified_entry_strs, rpc, ui, output,
                   meanVars, findVars, entryVars>>

\* process_entry in the worker, with the worker's db_conn; what it returns
\* or raises is the task's result
FinishTask(w) ==
    /\ rpc = "map"
    /\ workers[w].state = "busy"
    /\ task_results' = [task_results EXCEPT ![workers[w].task] =
                       ProcessEntry(Database(store), entry_strs[workers[w].task])]
    /\ served' = [served EXCEPT ![workers[w].task] = [worker |-> w, conn |-> workers[w].conn]]
    /\ overtook' = (overtook \/ \E k \in 1..(workers[w].task - 1) : ~Ready(task_results[k]))
    /\ workers' = [workers EXCEPT ![w] = Worker("idle", 0, workers[w].conn)]
    /\ UNCHANGED <<store, num_processes, entries, root, entry_strs, dispatched,
                   next_conn, closed, modified_entry_strs, rpc, ui, output,
                   meanVars, findVars, entryVars>>

\* Pool.__exit__ (terminate): the worker processes are killed, which closes
\* their connections
Terminated == [w \in 1..Len(workers) |-> Worker("terminated", 0, workers[w].conn)]

ConnsOf(ws) == {ws[w].conn : w \in 1..Len(ws)} \ {0}

\* lines 233-238: list() takes the next result of imap; a result that is an
\* exception is raised again, which leaves the with block and the function
TakeResult ==
    /\ rpc = "map"
    /\ \E k \in ImapNext(task_results, Len(modified_entry_strs)) :
          IF task_results[k].ok
          THEN /\ modified_entry_strs' = Append(modified_entry_strs, task_results[k].str)
               /\ UNCHANGED <<workers, closed, rpc>>
          ELSE /\ rpc' = "aborted"
               /\ workers' = Terminated
               /\ closed' = closed \cup ConnsOf(workers)
               /\ UNCHANGED modified_entry_strs
    /\ UNCHANGED <<store, num_processes, entries, root, entry_strs, dispatched, task_results,
                   served, overtook, next_conn, ui, output, meanVars, findVars, entryVars>>

\* lines 232-240: every result was taken; the with block ends
MapDone ==
    /\ rpc = "map"
    /\ Len(modified_entry_strs) = Len(entry_strs)
    /\ rpc' = "update"
    /\ ui' = 0
    /\ workers' = Terminated
    /\ closed' = closed \cup ConnsOf(workers)
    /\ UNCHANGED <<store, num_processes, entries, root, entry_strs, dispatched, task_results,
                   served, overtook, next_conn, modified_entry_strs, output,
                   meanVars, findVars, entryVars>>

\* lines 241-246: one iteration of the update loop
UpdateStep ==
    /\ rpc = "update"
    /\ ui < Len(modified_entry_strs)
    /\ root' = UpdateRoot(root, ui + 1, modified_entry_strs[ui + 1], entries)
    /\ ui' = ui + 1
    /\ UNCHANGED <<store, num_processes, entries, entry_strs, workers, dispatched, task_results,
                   served, overtook, next_conn, closed, modified_entry_strs, rpc, output,
                   meanVars, findVars, entryVars>>

\* lines 248-249: tree.write
WriteOutput ==
    /\ rpc = "update"
    /\ ui = Len(modified_entry_strs)
    /\ output' = root
    /\ rpc' = "written"
    /\ UNCHANGED <<store, num_processes, entries, root, entry_strs, workers, dispatched,
                   task_results, served, overtook, next_conn, closed, modified_entry_strs, ui,
                   meanVars, findVars, entryVars>>

\* lines 251-256: the summary; execution_time / total_entries raises
\* ZeroDivisionError for a corpus without entries
Report ==
    /\ rpc = "written"
    /\ rpc' = IF Len(entries) = 0 THEN "raised" ELSE "done"
    /\ UNCHANGED <<store, num_processes, entries, root, entry_strs, workers, dispatched,
                   task_results, served, overtook, next_conn, closed, modified_entry_strs, ui, output,
                   meanVars, findVars, entryVars>>

NextRun ==
    \/ \E w \in 1..Len(workers) : InitWorker(w)
    \/ \E w \in 1..Len(workers) : Respawn(w)
    \/ \E w \in 1..Len(workers) : TakeTask(w)
    \/ \E w \in 1..Len(workers) : FinishTask(w)
    \/ TakeResult
    \/ MapDone
    \/ UpdateStep
    \/ WriteOutput
    \/ Report

SpecRun == InitRun /\ [][NextRun]_vars

(***************************************************************************)
(* C1: the output keeps every entry at its index                           *)
(***************************************************************************)
Wrote == rpc \in {"written", "done", "raised"}

\* the processed form of entry i, or the entry itself when the returned text
\* does not parse
C1_Expected(i) ==
    LET r == ProcessEntry(Database(store), Tostring(entries[i]))
    IN  IF r.ok /\ WellFormed(r.str) THEN Entry(r.str.xml, None) ELSE entries[i]

\* C1: whatever the number of workers and the order in which tasks finish,
\* the output written has as many entries as the corpus, and the entry at
\* each index is the processed (or fallback) form of the input entry at
\* that index.
C1_OutputKeepsIndex ==
    Wrote =>
        /\ Len(output) = Len(entries)
        /\ \A i \in 1..Len(entries) : output[i] = C1_Expected(i)

\* an output written after a later task finished before an earlier one, by
\* two workers, with entries that differ
C1_Witness ==
    /\ rpc = "done"
    /\ Len(entries) >= 2
    /\ overtook
    /\ \E i, j \in 1..Len(entries) : served[i].worker # served[j].worker
    /\ \E i, j \in 1..Len(entries) : entries[i] # entries[j]
    /\ \E i \in 1..Len(entries) : output[i].children # entries[i].children

(***************************************************************************)
(* C3: a returned text that does not parse                                 *)
(***************************************************************************)
\* C3: in the update loop a returned text that cannot be parsed leaves the
\* original entry at its index, every other index gets its own parsed
\* result, the loop goes on to the end and the output is written from it;
\* the run is never aborted from the update loop.
C3_UnparsableKeepsOriginal ==
    /\ (rpc = "update" \/ Wrote) =>
          \A i \in 1..(IF rpc = "update" THEN ui ELSE Len(entries)) :
              root[i] = IF WellFormed(modified_entry_strs[i])
                        THEN Entry(modified_entry_strs[i].xml, None)
                        ELSE entries[i]
    /\ Wrote => output = root
    /\ rpc = "aborted" => (ui = 0 /\ Len(modified_entry_strs) < Len(entries))

\* an output with one entry kept as it was and another one enriched
C3_Witness ==
    /\ rpc = "done"
    /\ \E i, j \in 1..Len(entries) :
          /\ ~WellFormed(modified_entry_strs[i])
          /\ output[i] = entries[i]
          /\ WellFormed(modified_entry_strs[j])
          /\ output[j].children # entries[j].children
          /\ output[j] = Entry(modified_entry_strs[j].xml, None)

(***************************************************************************)
(* C4: an entry whose processing raises                                    *)
(***************************************************************************)
C4_Raised(i) == Ready(task_results[i]) /\ ~task_results[i].ok

\* C4: an entry whose processing in the worker raises ends with its
\* original form in the output and does not stop the run.
C4_RaisingEntryKeepsOriginal ==
    \A i \in 1..Len(entries) :
        C4_Raised(i) =>
            /\ rpc # "aborted"
            /\ Wrote => output[i] = entries[i]

(***************************************************************************)
(* C9: a store that cannot be used                                         *)
(***************************************************************************)
\* C9: with a store that gives the workers no usable connection, a run over
\* a corpus with entries does not end with an output written and success
\* reported.
C9_UnusableStoreNoSuccess ==
    (store # "ok" /\ Len(entries) > 0) => ~Wrote

(***************************************************************************)
(* C10: connections                                                        *)
(***************************************************************************)
\* C10: a worker ready for tasks holds one open connection, the one it
\* opened; no two workers hold the same connection; as many connections
\* were opened as there are workers holding one; every task was run with
\* the connection of the worker that ran it; no connection is closed while
\* the pool is at work.
C10_OneConnectionPerWorker ==
    /\ \A w \in 1..Len(workers) :
          workers[w].state \in {"idle", "busy"} =>
              workers[w].conn # 0 /\ workers[w].conn \notin closed
    /\ \A w1, w2 \in 1..Len(workers) :
          (w1 # w2 /\ workers[w1].conn # 0) => workers[w1].conn # workers[w2].conn
    /\ next_conn - 1 = Cardinality({w \in 1..Len(workers) : workers[w].conn # 0})
    /\ \A i \in 1..Len(served) :
          served[i].worker # 0 =>
              /\ served[i].conn # 0
              /\ served[i].conn = workers[served[i].worker].conn
    /\ \A i, j \in 1..Len(served) :
          (served[i].worker # 0 /\ served[j].worker # 0) =>
              (served[i].conn = served[j].conn <=> served[i].worker = served[j].worker)
    /\ closed # {} => rpc # "map"

\* a worker that ran two tasks with its connection while another worker
\* holds a connection of its own
C10_Witness ==
    /\ rpc = "map"
    /\ \E i, j \in 1..Len(served) :
          /\ i # j
          /\ served[i].worker # 0
          /\ served[i].worker = served[j].worker
          /\ \E w \in 1..Len(workers) :
                w # served[i].worker /\ workers[w].conn # 0

====
